---- MODULE Spec2Model ----
(***************************************************************************)
(* process_dashboard.py: a Streamlit script that is re-executed from top   *)
(* to bottom on every browser reload or widget interaction.  The model     *)
(* follows one script run step by step (one step per access to the         *)
(* outside world), with the config file, the log directory, the clock and  *)
(* the two st.cache_data caches as the state that survives between runs.   *)
(*                                                                         *)
(* File names and process names are sequences of tokens, so that           *)
(* str.endswith / str.replace / the f-string of the source are modelled by *)
(* what they do: "a.json.json" is <<"a", ".json", ".json">>.               *)
(***************************************************************************)
EXTENDS Integers, Sequences, FiniteSets, TLC

VARIABLES
    config,              \* content of CONFIG_FILE on disk
    fs,                  \* the log directory: file name -> sequence of lines
    sys_argv,            \* sys.argv of the streamlit process
    config_cache,        \* st.cache_data store of load_app_config
    parse_cache,         \* st.cache_data store of parse_log_files
    since_config_write,  \* seconds since CONFIG_FILE last changed (capped)
    since_log_write,     \* seconds since the log directory last changed (capped)
    pc,                  \* position of the running script
    log_dir,             \* line 71
    config_processes,    \* line 71
    initial_selection,   \* lines 74-79
    available_logs,      \* line 83
    sanitized_selection, \* line 84
    ignored_processes,   \* line 86
    selected_processes,  \* line 92 / 98
    idx,                 \* position of "for name in process_names" (line 42)
    all_records,         \* line 41
    parse_dirty,         \* the log directory changed while parse_log_files ran
    df,                  \* line 118: what parse_log_files returned
    series,              \* lines 121-124: df sorted, with the running counts
    shown,               \* st.* elements rendered by this run
    calls,               \* outside-world calls made by this run
    exc                  \* the unhandled exception that ended the run, if any

env_vars    == <<config, fs, sys_argv, since_config_write, since_log_write>>
cache_vars  == <<config_cache, parse_cache>>
select_vars == <<log_dir, config_processes, initial_selection, available_logs,
                 sanitized_selection, ignored_processes, selected_processes>>
parse_vars  == <<idx, all_records, parse_dirty>>
out_vars    == <<df, series, shown, calls, exc>>
vars        == <<env_vars, cache_vars, select_vars, parse_vars, out_vars, pc>>

---------------------------------------------------------------------------
(* Program constants *)

CONFIG_TTL      == 30
PARSE_TTL       == 5
REFRESH_SECONDS == 5

(* Bounds of the model *)

MaxLines   == 3    \* SpecParse: lines in the log directory, all files together
MaxNames   == 2    \* SpecParse / SpecResolve: length of a list of process names
MaxRecords == 3    \* SpecSeries: records handed to the series builder
MaxLogLines == 1   \* Spec: lines in the log directory, all files together
MaxPick    == 1    \* names a user picks in the multiselect widget

---------------------------------------------------------------------------
(* Python values *)

None    == "None"
JSON    == ".json"
NoExc   == "none"

Min(a, b) == IF a < b THEN a ELSE b

Range(s) == {s[i] : i \in DOMAIN s}

SeqsUpTo(S, n) == UNION {[1..k -> S] : k \in 0..n}

RECURSIVE Concat(_)
Concat(ss) == IF ss = <<>> THEN <<>> ELSE Head(ss) \o Concat(Tail(ss))

(* f.endswith(".json"), line 83 *)
EndsWithJson(f) == Len(f) > 0 /\ f[Len(f)] = JSON

(* f.replace(".json", ""), line 83: every occurrence is removed *)
ReplaceJson(f) == SelectSeq(f, LAMBDA t : t # JSON)

(* f"{name}.json", line 43 *)
LogFileName(name) == name \o <<JSON>>

(* truthiness of log_dir, line 82 *)
Truthy(d) == d # None /\ d # ""

---------------------------------------------------------------------------
(* The config file and load_app_config (lines 24-36) *)

ConfigKey == <<>>

LogDirs == {"logs", "nodir"}

DirExists(d) == d = "logs"

MkConfig(kind, logs, names) == [kind |-> kind, logs |-> logs, names |-> names]

ConfigUnreadable == MkConfig("unreadable", None, <<>>)   \* toml.load raises
ConfigNoLogsKey  == MkConfig("nokey", None, <<>>)        \* config["output_path"]["logs"] raises

LoadConfigResult_DefaultDir(c) ==
    IF c.kind = "ok"
    THEN [log_dir |-> c.logs, names |-> c.names, error |-> FALSE]
    ELSE [log_dir |-> "logs", names |-> <<>>, error |-> TRUE]

(* The body of load_app_config: the pair it returns, and whether st.error ran *)
LoadConfigResult(c) ==
    IF c.kind = "ok"
    THEN [log_dir |-> c.logs, names |-> c.names, error |-> FALSE]
    ELSE [log_dir |-> None, names |-> <<>>, error |-> TRUE]

---------------------------------------------------------------------------
(* st.cache_data(ttl=...) (lines 24, 38): one entry per argument tuple,    *)
(* stamped when the value is stored and kept until it is ttl seconds old.  *)

EmptyCache == [k \in {} |-> None]

CacheHit(cache, key) == key \in DOMAIN cache

CachePut(cache, key, value, racy) ==
    [k \in DOMAIN cache \cup {key} |->
        IF k = key THEN [value |-> value, age |-> 0, racy |-> racy] ELSE cache[k]]

CacheAged_NoExpiry(cache, ttl, seconds) == cache

(* The store after `seconds` more seconds: an entry that reaches its ttl is gone *)
CacheAged(cache, ttl, seconds) ==
    [k \in {j \in DOMAIN cache : cache[j].age + seconds < ttl} |->
        [cache[k] EXCEPT !.age = @ + seconds]]

---------------------------------------------------------------------------
(* Log lines and parse_log_files (lines 38-64) *)

BothKeys == {"timestamp", "exit_code"}

IntCode(n) == [t |-> "int", v |-> n]
BoolFalse  == [t |-> "bool", v |-> 0]      \* JSON false: False == 0 in Python

MkLine(kind, keys, ts, ec) ==
    [kind |-> kind, keys |-> keys, timestamp |-> ts, exit_code |-> ec]

BlankLine     == MkLine("blank", {}, "t1", IntCode(0))      \* "" after strip()
MalformedLine == MkLine("malformed", {}, "t1", IntCode(0))  \* json.loads raises JSONDecodeError
ScalarLine    == MkLine("scalar", {}, "t1", IntCode(0))     \* null, 5, true
ArrayLine     == MkLine("array", BothKeys, "t1", IntCode(0)) \* ["exit_code", "timestamp"]
ObjectLine(keys, ts, ec) == MkLine("object", keys, ts, ec)

(* log_entry["exit_code"] == 0, line 54 *)
PyEqZero(e) == e.t \in {"int", "bool", "float"} /\ e.v = 0

Status_Inverted(e) == IF PyEqZero(e) THEN "failure" ELSE "success"

Status(e) == IF PyEqZero(e) THEN "success" ELSE "failure"

MkRecord(ts, status, name) ==
    [timestamp |-> ts, status |-> status, process |-> name]

Skip     == [out |-> "skip", rec |-> MkRecord("t1", "success", <<>>)]
Raise(e) == [out |-> e, rec |-> MkRecord("t1", "success", <<>>)]
Emit(r)  == [out |-> "record", rec |-> r]

(* Lines 48-61 for one line of the file *)
ParseLine(line, name) ==
    IF line.kind = "blank" THEN Skip                      \* line 49
    ELSE IF line.kind = "malformed" THEN Skip             \* line 60
    ELSE IF line.kind = "scalar" THEN Raise("TypeError")  \* "exit_code" in 5
    ELSE IF ~("exit_code" \in line.keys /\ "timestamp" \in line.keys) THEN Skip
    ELSE IF line.kind = "object"
         THEN Emit(MkRecord(line.timestamp, Status(line.exit_code), name))
         ELSE Raise("TypeError")                          \* log_entry["exit_code"] on a list or str

(* Lines 47-61: the loop over the lines of one open file *)
RECURSIVE ProcessLines(_, _, _)
ProcessLines(lines, name, acc) ==
    IF lines = <<>> THEN [records |-> acc, exc |-> NoExc]
    ELSE LET r == ParseLine(Head(lines), name)
         IN  IF r.out = "skip" THEN ProcessLines(Tail(lines), name, acc)
             ELSE IF r.out = "record"
                  THEN ProcessLines(Tail(lines), name, Append(acc, r.rec))
                  ELSE [records |-> acc, exc |-> r.out]

(* os.path.exists(os.path.join(log_dir, f"{name}.json")), lines 43-44 *)
LogExists(files, dir, name) == DirExists(dir) /\ LogFileName(name) \in DOMAIN files

---------------------------------------------------------------------------
(* Selection (lines 72-96) *)

CliProcesses(argv) == IF Len(argv) > 1 THEN Tail(argv) ELSE <<>>

InitialSelection_Merged(argv, defaults) == CliProcesses(argv) \o defaults

(* Lines 72-79; "if cli_processes" is false for None and for an empty list *)
InitialSelection(argv, defaults) ==
    IF CliProcesses(argv) # <<>> THEN CliProcesses(argv) ELSE defaults

(* Line 83 *)
AvailableLogs(files) == {ReplaceJson(f) : f \in {g \in DOMAIN files : EndsWithJson(g)}}

(* Line 84 *)
Sanitized(requested, available) == SelectSeq(requested, LAMBDA p : p \in available)

(* Line 86 *)
Ignored(requested, available) == SelectSeq(requested, LAMBDA p : p \notin available)

IsInjective(s) == \A i, j \in DOMAIN s : s[i] = s[j] => i = j

(* What st.sidebar.multiselect can return: its default, or the user's picks *)
MultiselectResults(options, default) ==
    {default} \cup {s \in SeqsUpTo(options, MaxPick) : IsInjective(s)}

---------------------------------------------------------------------------
(* Series builder (lines 121-124) *)

DatetimeParses(ts) == ts # "bad"

(* pd.to_datetime: two spellings of one instant convert to the same value *)
ToDatetime(ts) == IF ts = "t2" THEN 2 ELSE 1

Converted(d) == [i \in DOMAIN d |-> [d[i] EXCEPT !.timestamp = ToDatetime(@)]]

IsSortedByTimestamp(s) ==
    \A i, j \in DOMAIN s : i < j => s[i].timestamp <= s[j].timestamp

Perms(n) == {p \in [1..n -> 1..n] : IsInjective(p)}

(* df.sort_values(by='timestamp') with the default kind='quicksort', which *)
(* is not a stable sort: any arrangement ordered by timestamp can result.  *)
SortOutcomes(d) ==
    {s \in {[i \in DOMAIN d |-> d[p[i]]] : p \in Perms(Len(d))} : IsSortedByTimestamp(s)}

CountUpTo(s, i, st) == Cardinality({k \in 1..i : s[k].status = st})

CumSum_OffByOne(s) ==
    [i \in DOMAIN s |->
        [timestamp |-> s[i].timestamp, status |-> s[i].status, process |-> s[i].process,
         success_count |-> CountUpTo(s, i - 1, "success"),
         failure_count |-> CountUpTo(s, i, "failure")]]

(* Lines 123-124 *)
CumSum(s) ==
    [i \in DOMAIN s |->
        [timestamp |-> s[i].timestamp, status |-> s[i].status, process |-> s[i].process,
         success_count |-> CountUpTo(s, i, "success"),
         failure_count |-> CountUpTo(s, i, "failure")]]

---------------------------------------------------------------------------
(* One run of the script *)

ParsePcs == {"parse_exists", "parse_open"}

Crash(e) ==
    /\ pc' = "crashed"
    /\ exc' = e

(* Line 71: load_app_config() through its cache *)
LoadAppConfig ==
    /\ pc = "load_config"
    /\ LET hit == CacheHit(config_cache, ConfigKey)
           r   == IF hit THEN config_cache[ConfigKey].value ELSE LoadConfigResult(config)
       IN  /\ log_dir' = r.log_dir
           /\ config_processes' = r.names
           /\ shown' = IF r.error THEN shown \cup {"config_error"} ELSE shown
           /\ calls' = IF hit THEN calls ELSE calls \cup {"toml.load"}
           /\ config_cache' = IF hit THEN config_cache
                              ELSE CachePut(config_cache, ConfigKey, r, FALSE)
    /\ pc' = "resolve"
    /\ UNCHANGED <<env_vars, parse_cache, initial_selection, available_logs,
                   sanitized_selection, ignored_processes, selected_processes,
                   parse_vars, df, series, exc>>

(* Lines 72-99 *)
ResolveSelection ==
    /\ pc = "resolve"
    /\ initial_selection' = InitialSelection(sys_argv, config_processes)
    /\ IF Truthy(log_dir)
       THEN IF DirExists(log_dir)
            THEN /\ available_logs' = AvailableLogs(fs)
                 /\ sanitized_selection' = Sanitized(initial_selection', available_logs')
                 /\ ignored_processes' = Ignored(initial_selection', available_logs')
                 /\ selected_processes' \in
                        MultiselectResults(available_logs', sanitized_selection')
                 /\ shown' = shown
                        \cup {IF CliProcesses(sys_argv) # <<>> THEN "cli_info" ELSE "default_info"}
                        \cup (IF ignored_processes' # <<>> THEN {"ignored_warning"} ELSE {})
                 /\ pc' = "main"
                 /\ exc' = exc
            ELSE /\ Crash("FileNotFoundError")          \* os.listdir(log_dir)
                 /\ shown' = shown
                        \cup {IF CliProcesses(sys_argv) # <<>> THEN "cli_info" ELSE "default_info"}
                 /\ UNCHANGED <<available_logs, sanitized_selection,
                                ignored_processes, selected_processes>>
       ELSE /\ selected_processes' = <<>>
            /\ shown' = shown
                   \cup {IF CliProcesses(sys_argv) # <<>> THEN "cli_info" ELSE "default_info"}
                   \cup {"nonfunctional"}
            /\ pc' = "main"
            /\ exc' = exc
            /\ UNCHANGED <<available_logs, sanitized_selection, ignored_processes>>
    /\ calls' = IF Truthy(log_dir) THEN calls \cup {"os.listdir"} ELSE calls
    /\ UNCHANGED <<env_vars, cache_vars, log_dir, config_processes,
                   parse_vars, df, series>>

ParseKey == <<selected_processes, log_dir>>

(* Lines 115-118: the guard and the call of parse_log_files through its cache *)
MainDashboard ==
    /\ pc = "main"
    /\ IF selected_processes = <<>>
       THEN /\ shown' = shown \cup {"please_select"}
            /\ pc' = "done"
            /\ UNCHANGED <<parse_vars, df, calls>>
       ELSE /\ calls' = calls \cup {"parse_log_files"}
            /\ shown' = shown
            /\ IF CacheHit(parse_cache, ParseKey)
               THEN /\ df' = parse_cache[ParseKey].value
                    /\ pc' = "series"
                    /\ UNCHANGED parse_vars
               ELSE /\ idx' = 1
                    /\ all_records' = <<>>
                    /\ parse_dirty' = FALSE
                    /\ pc' = "parse_exists"
                    /\ UNCHANGED df
    /\ UNCHANGED <<env_vars, cache_vars, select_vars, series, exc>>

ParseExists_BreakOnMissing ==
    /\ pc = "parse_exists"
    /\ idx <= Len(selected_processes)
    /\ IF LogExists(fs, log_dir, selected_processes[idx])
       THEN pc' = "parse_open" /\ idx' = idx
       ELSE pc' = "parse_exists" /\ idx' = Len(selected_processes) + 1
    /\ UNCHANGED <<env_vars, cache_vars, select_vars, all_records, parse_dirty,
                   out_vars>>

(* Lines 42-45: the next name, and whether its file exists *)
ParseExists ==
    /\ pc = "parse_exists"
    /\ idx <= Len(selected_processes)
    /\ IF LogExists(fs, log_dir, selected_processes[idx])
       THEN pc' = "parse_open" /\ idx' = idx
       ELSE pc' = "parse_exists" /\ idx' = idx + 1
    /\ UNCHANGED <<env_vars, cache_vars, select_vars, all_records, parse_dirty,
                   out_vars>>

(* Lines 46-61: open the file and read its lines *)
ParseOpen ==
    /\ pc = "parse_open"
    /\ LET name == selected_processes[idx]
       IN  IF ~LogExists(fs, log_dir, name)
           THEN /\ Crash("FileNotFoundError")           \* open(log_path, 'r')
                /\ UNCHANGED <<idx, all_records>>
           ELSE LET r == ProcessLines(fs[LogFileName(name)], name, all_records)
                IN  IF r.exc # NoExc
                    THEN /\ Crash(r.exc)
                         /\ UNCHANGED <<idx, all_records>>
                    ELSE /\ all_records' = r.records
                         /\ idx' = idx + 1
                         /\ pc' = "parse_exists"
                         /\ exc' = exc
    /\ UNCHANGED <<env_vars, cache_vars, select_vars, parse_dirty,
                   df, series, shown, calls>>

(* Lines 62-64: the return, stored by st.cache_data *)
ParseReturn ==
    /\ pc = "parse_exists"
    /\ idx > Len(selected_processes)
    /\ df' = all_records
    /\ parse_cache' = CachePut(parse_cache, ParseKey, all_records, parse_dirty)
    /\ pc' = "series"
    /\ UNCHANGED <<env_vars, config_cache, select_vars, parse_vars,
                   series, shown, calls, exc>>

(* Lines 120-158 *)
BuildSeries ==
    /\ pc = "series"
    /\ IF df = <<>>
       THEN /\ shown' = shown \cup {"waiting"}
            /\ pc' = "done"
            /\ UNCHANGED <<series, exc>>
       ELSE IF \E i \in DOMAIN df : ~DatetimeParses(df[i].timestamp)
            THEN /\ Crash("ValueError")                 \* pd.to_datetime
                 /\ UNCHANGED <<series, shown>>
            ELSE /\ \E s \in SortOutcomes(Converted(df)) : series' = CumSum(s)
                 /\ shown' = shown \cup {"data"}
                 /\ pc' = "done"
                 /\ exc' = exc
    /\ UNCHANGED <<env_vars, cache_vars, select_vars, parse_vars, df, calls>>

(* A browser reload (line 108) or a widget interaction starts the next run *)
Rerun ==
    /\ pc \in {"done", "crashed"}
    /\ pc' = "load_config"
    /\ log_dir' = None
    /\ config_processes' = <<>>
    /\ initial_selection' = <<>>
    /\ available_logs' = {}
    /\ sanitized_selection' = <<>>
    /\ ignored_processes' = <<>>
    /\ selected_processes' = <<>>
    /\ idx' = 1
    /\ all_records' = <<>>
    /\ parse_dirty' = FALSE
    /\ df' = <<>>
    /\ series' = <<>>
    /\ shown' = {}
    /\ calls' = {}
    /\ exc' = NoExc
    /\ UNCHANGED <<env_vars, cache_vars>>

---------------------------------------------------------------------------
(* The outside world: the clock, the config file, the log writers *)

Script == <<"process_dashboard.py">>

NameA == <<"a">>
NameB == <<"b">>

LogWriteCap    == PARSE_TTL + REFRESH_SECONDS
ConfigWriteCap == CONFIG_TTL + REFRESH_SECONDS

RECURSIVE TotalLines(_, _)
TotalLines(files, names) ==
    IF names = {} THEN 0
    ELSE LET f == CHOOSE g \in names : TRUE
         IN  Len(files[f]) + TotalLines(files, names \ {f})

EmptyDir == [f \in {} |-> <<>>]

(* Spec: what the environment writes *)
ConfigStates ==
    {ConfigUnreadable, MkConfig("ok", "logs", <<NameA>>), MkConfig("ok", "nodir", <<NameA>>)}

LogFiles == {LogFileName(NameA)}

AppendedLines ==
    {ObjectLine(BothKeys, "t1", IntCode(0)), ObjectLine(BothKeys, "bad", IntCode(1)), ScalarLine}

(* Time passes, at any point of a run or between runs.  The clock is read  *)
(* in steps of the reload period of line 108.                             *)
Tick ==
    /\ config_cache' = CacheAged(config_cache, CONFIG_TTL, REFRESH_SECONDS)
    /\ parse_cache' = CacheAged(parse_cache, PARSE_TTL, REFRESH_SECONDS)
    /\ since_config_write' = Min(since_config_write + REFRESH_SECONDS, ConfigWriteCap)
    /\ since_log_write' = Min(since_log_write + REFRESH_SECONDS, LogWriteCap)
    /\ UNCHANGED <<config, fs, sys_argv, select_vars, parse_vars, out_vars, pc>>

WriteConfig ==
    /\ \E c \in ConfigStates \ {config} : config' = c
    /\ since_config_write' = 0
    /\ UNCHANGED <<fs, sys_argv, since_log_write, cache_vars, select_vars,
                   parse_vars, out_vars, pc>>

LogsChanged ==
    /\ since_log_write' = 0
    /\ parse_dirty' = IF pc \in ParsePcs THEN TRUE ELSE parse_dirty
    /\ UNCHANGED <<config, sys_argv, since_config_write, cache_vars, select_vars,
                   idx, all_records, out_vars, pc>>

CreateLog ==
    /\ \E f \in LogFiles \ DOMAIN fs :
          fs' = [g \in DOMAIN fs \cup {f} |-> IF g = f THEN <<>> ELSE fs[g]]
    /\ LogsChanged

AppendLog ==
    /\ TotalLines(fs, DOMAIN fs) < MaxLogLines
    /\ \E f \in DOMAIN fs, line \in AppendedLines :
          fs' = [fs EXCEPT ![f] = Append(@, line)]
    /\ LogsChanged

RemoveLog ==
    /\ \E f \in DOMAIN fs : fs' = [g \in DOMAIN fs \ {f} |-> fs[g]]
    /\ LogsChanged

---------------------------------------------------------------------------
(* Specifications *)

IdleRun ==
    /\ log_dir = None
    /\ config_processes = <<>>
    /\ initial_selection = <<>>
    /\ available_logs = {}
    /\ sanitized_selection = <<>>
    /\ ignored_processes = <<>>
    /\ selected_processes = <<>>
    /\ idx = 1
    /\ all_records = <<>>
    /\ parse_dirty = FALSE
    /\ df = <<>>
    /\ series = <<>>
    /\ shown = {}
    /\ calls = {}
    /\ exc = NoExc

ColdCaches ==
    /\ config_cache = EmptyCache
    /\ parse_cache = EmptyCache
    /\ since_config_write = ConfigWriteCap
    /\ since_log_write = LogWriteCap

(* The whole program: the process starts with cold caches *)
Init ==
    /\ config \in ConfigStates
    /\ fs = EmptyDir
    /\ sys_argv \in {Script, <<"process_dashboard.py", NameA>>}
    /\ ColdCaches
    /\ IdleRun
    /\ pc = "load_config"

Next ==
    \/ LoadAppConfig
    \/ ResolveSelection
    \/ MainDashboard
    \/ ParseExists
    \/ ParseOpen
    \/ ParseReturn
    \/ BuildSeries
    \/ Rerun
    \/ Tick
    \/ WriteConfig
    \/ CreateLog
    \/ AppendLog
    \/ RemoveLog

Spec == Init /\ [][Next]_vars

---------------------------------------------------------------------------
(* parse_log_files on its own: one call on every bounded directory content *)

ParseNames == {NameA, NameB}

ParseLines ==
    {BlankLine, MalformedLine, ArrayLine,
     ObjectLine({"timestamp"}, "t1", IntCode(0)),
     ObjectLine({"exit_code"}, "t1", IntCode(0)),
     ObjectLine(BothKeys, "t1", IntCode(0)),
     ObjectLine(BothKeys, "t1", IntCode(1)),
     ObjectLine(BothKeys, "t2", IntCode(-1)),
     ObjectLine(BothKeys, "t2", BoolFalse)}

FileA == LogFileName(NameA)
FileB == LogFileName(NameB)

(* Directories holding a subset of a.json and b.json, MaxLines lines in all *)
IsParseDir(files) ==
    \/ files = EmptyDir
    \/ \E k \in 0..MaxLines : \E x \in [1..k -> ParseLines] :
          files = (FileA :> x) \/ files = (FileB :> x)
    \/ \E k \in 0..MaxLines : \E x \in [1..k -> ParseLines] :
          \E j \in 0..(MaxLines - k) : \E y \in [1..j -> ParseLines] :
              files = (FileA :> x @@ FileB :> y)

InitParse ==
    /\ config = MkConfig("ok", "logs", <<>>)
    /\ IsParseDir(fs)
    /\ sys_argv = Script
    /\ ColdCaches
    /\ log_dir = "logs"
    /\ config_processes = <<>>
    /\ initial_selection = <<>>
    /\ available_logs = AvailableLogs(fs)
    /\ sanitized_selection = <<>>
    /\ ignored_processes = <<>>
    /\ \E k \in 0..MaxNames : selected_processes \in [1..k -> ParseNames]
    /\ idx = 1
    /\ all_records = <<>>
    /\ parse_dirty = FALSE
    /\ df = <<>>
    /\ series = <<>>
    /\ shown = {}
    /\ calls = {}
    /\ exc = NoExc
    /\ pc = "main"

NextParse ==
    \/ MainDashboard
    \/ ParseExists
    \/ ParseOpen
    \/ ParseReturn

SpecParse == InitParse /\ [][NextParse]_vars

---------------------------------------------------------------------------
(* The series builder on its own: every bounded frame parse_log_files returns *)

SeriesRecords ==
    {MkRecord(ts, st, NameA) : ts \in {"t1", "t1z", "t2", "bad"},
                               st \in {"success", "failure"}}

InitSeries ==
    /\ config = MkConfig("ok", "logs", <<>>)
    /\ fs = EmptyDir
    /\ sys_argv = Script
    /\ ColdCaches
    /\ log_dir = "logs"
    /\ config_processes = <<>>
    /\ initial_selection = <<>>
    /\ available_logs = {NameA}
    /\ sanitized_selection = <<>>
    /\ ignored_processes = <<>>
    /\ selected_processes = <<NameA>>
    /\ idx = 1
    /\ all_records = <<>>
    /\ parse_dirty = FALSE
    /\ \E k \in 0..MaxRecords : df \in [1..k -> SeriesRecords]
    /\ series = <<>>
    /\ shown = {}
    /\ calls = {"parse_log_files"}
    /\ exc = NoExc
    /\ pc = "series"

NextSeries == BuildSeries

SpecSeries == InitSeries /\ [][NextSeries]_vars

---------------------------------------------------------------------------
(* The selection on its own: every bounded argv, config and directory listing *)

ResolveNames == {NameA, NameB, <<"a", JSON>>}

ResolveListing ==
    {LogFileName(NameA), LogFileName(NameB), <<"a", JSON, JSON>>, <<"b", ".txt">>}

IsResolveConfig(c) ==
    \/ c = ConfigUnreadable
    \/ c = ConfigNoLogsKey
    \/ \E d \in LogDirs \cup {""} : \E k \in 0..MaxNames :
          \E n \in [1..k -> ResolveNames] : c = MkConfig("ok", d, n)

InitResolve ==
    /\ IsResolveConfig(config)
    /\ \E D \in SUBSET ResolveListing : fs = [f \in D |-> <<>>]
    /\ \E k \in 0..MaxNames : \E a \in [1..k -> ResolveNames] : sys_argv = Script \o a
    /\ ColdCaches
    /\ IdleRun
    /\ pc = "load_config"

NextResolve ==
    \/ LoadAppConfig
    \/ ResolveSelection

SpecResolve == InitResolve /\ [][NextResolve]_vars

---------------------------------------------------------------------------
(* What the claims compare the program with *)

HasBothFields(line) == line.kind = "object" /\ BothKeys \subseteq line.keys

(* The lines of <name>.json that are JSON objects with both fields, in file order *)
EmittingLines(files, name) ==
    IF LogFileName(name) \in DOMAIN files
    THEN SelectSeq(files[LogFileName(name)], HasBothFields)
    ELSE <<>>

SourceLines(names, files) ==
    Concat([i \in DOMAIN names |-> EmittingLines(files, names[i])])

(* Where a record comes from: its line's timestamp and its file's name *)
Origin(ts, name) == [timestamp |-> ts, process |-> name]

Origins(d) == [i \in DOMAIN d |-> Origin(d[i].timestamp, d[i].process)]

ExpectedOrigins(names, files) ==
    Concat([i \in DOMAIN names |->
               LET ls == EmittingLines(files, names[i])
               IN  [k \in DOMAIN ls |-> Origin(ls[k].timestamp, names[i])]])

(* What an uncached parse_log_files call returns if nothing changes while it runs *)
ReadNow(names, files) ==
    Concat([i \in DOMAIN names |->
               IF LogFileName(names[i]) \in DOMAIN files
               THEN ProcessLines(files[LogFileName(names[i])], names[i], <<>>).records
               ELSE <<>>])

InsertStable(s, r) ==
    LET k == Cardinality({i \in DOMAIN s : s[i].timestamp <= r.timestamp})
    IN  SubSeq(s, 1, k) \o <<r>> \o SubSeq(s, k + 1, Len(s))

RECURSIVE StableSorted(_)
StableSorted(d) ==
    IF d = <<>> THEN <<>>
    ELSE InsertStable(StableSorted(SubSeq(d, 1, Len(d) - 1)), d[Len(d)])

HasLogFile(name) == LogFileName(name) \in DOMAIN fs

ParseFinished == pc \in {"series", "crashed"}

---------------------------------------------------------------------------
(* Claims *)

(* C1: every record parse_log_files returns for a line whose exit_code is  *)
(* an integer has status "success" exactly when that exit_code is 0 and    *)
(* "failure" otherwise, whatever the line's timestamp and process.         *)
C1_StatusFromExitCode ==
    pc = "series" =>
        LET src == SourceLines(selected_processes, fs)
        IN  /\ Len(df) = Len(src)
            /\ \A i \in DOMAIN df :
                  src[i].exit_code.t = "int" =>
                      /\ df[i].status \in {"success", "failure"}
                      /\ df[i].status = "success" <=> src[i].exit_code.v = 0

C1_Witness ==
    /\ pc = "series"
    /\ \E i, j \in DOMAIN df :
          /\ df[i].status = "success"
          /\ df[j].status = "failure"
          /\ df[i].process # df[j].process

(* C2: for any file content, a finished parse_log_files call has emitted   *)
(* exactly one record per line that is a JSON object with both fields, in  *)
(* line order, and nothing for any other line; no other line suppresses    *)
(* the records of the rest.                                                *)
C2_OneRecordPerValidLine ==
    ParseFinished => Origins(df) = ExpectedOrigins(selected_processes, fs)

(* C8: parse_log_files returns the concatenation, in the order of the      *)
(* requested names, of each name's records in file line order; a name      *)
(* whose file is absent adds nothing, and is never what ended the call.    *)
C8_ConcatenationInNameOrder ==
    /\ pc = "series" => Origins(df) = ExpectedOrigins(selected_processes, fs)
    /\ pc \in ParsePcs =>
          Origins(all_records) =
              ExpectedOrigins(SubSeq(selected_processes, 1, idx - 1), fs)
    /\ pc = "crashed" =>
          /\ exc = "TypeError"
          /\ HasLogFile(selected_processes[idx])

C8_Witness ==
    /\ pc = "series"
    /\ Len(selected_processes) = MaxNames
    /\ ~HasLogFile(selected_processes[1])
    /\ HasLogFile(selected_processes[Len(selected_processes)])
    /\ Len(df) > 1

(* C3: once the series is built, for every 0-based index i the running     *)
(* success and failure counts add up to i+1, and the last pair (the KPI    *)
(* "Total Runs") adds up to the number of records parse_log_files gave.    *)
C3_CountsAddUp ==
    (pc = "done" /\ "data" \in shown) =>
        /\ Len(series) = Len(df)
        /\ \A i \in DOMAIN series :
              series[i].success_count + series[i].failure_count = i

C3_Witness ==
    /\ pc = "done"
    /\ Len(series) = MaxRecords
    /\ \E i, j \in DOMAIN series :
          series[i].status = "success" /\ series[j].status = "failure"

(* C9: the series is ordered by timestamp and records with equal           *)
(* timestamps keep the order parse_log_files gave them (a stable sort).    *)
C9_StableSort ==
    (pc = "done" /\ "data" \in shown) =>
        series = CumSum(StableSorted(Converted(df)))

(* C4: when a command-line name is given the initial selection is exactly  *)
(* the command-line list, with no config default in it, even when none of  *)
(* its names has a log file; the config defaults are used exactly when no  *)
(* command-line name is given.                                             *)
C4_CliPrecedence ==
    pc \in {"main", "crashed"} =>
        IF Len(sys_argv) > 1
        THEN /\ initial_selection = Tail(sys_argv)
             /\ "default_info" \notin shown
        ELSE /\ initial_selection = (IF config.kind = "ok" THEN config.names ELSE <<>>)
             /\ "cli_info" \notin shown

C4_Witness ==
    /\ pc = "main"
    /\ Len(sys_argv) > 1
    /\ config.kind = "ok"
    /\ config.logs = "logs"
    /\ \E i \in DOMAIN config.names : HasLogFile(config.names[i])
    /\ \A i \in DOMAIN initial_selection : ~HasLogFile(initial_selection[i])
    /\ Range(config.names) \cap Range(Tail(sys_argv)) = {}

(* C5: the resolver splits the requested list, in order, into the names    *)
(* that have a <name>.json file (selected) and those that do not (ignored).*)
C5_SplitByLogFile ==
    (pc = "main" /\ Truthy(log_dir)) =>
        /\ sanitized_selection = SelectSeq(initial_selection, HasLogFile)
        /\ ignored_processes = SelectSeq(initial_selection, LAMBDA p : ~HasLogFile(p))

(* C6: no run of the script ends in an unhandled exception.                *)
C6_NoFatalErrors == pc # "crashed"

(* C7: when loading the config fails, load_app_config reports the error    *)
(* and returns (None, []); the run then has an empty selection, never      *)
(* lists the log directory, never calls parse_log_files, and ends in the   *)
(* non-functional display state, not in an exception.                      *)
C7_ConfigFailureDegrades ==
    /\ (pc # "load_config" /\ log_dir = None) => "config_error" \in shown
    /\ "config_error" \in shown =>
          /\ log_dir = None
          /\ config_processes = <<>>
          /\ selected_processes = <<>>
          /\ "os.listdir" \notin calls
          /\ "parse_log_files" \notin calls
          /\ pc \in {"resolve", "main", "done"}
          /\ pc \in {"main", "done"} => "nonfunctional" \in shown

C7_Witness ==
    /\ pc = "done"
    /\ "config_error" \in shown
    /\ "nonfunctional" \in shown
    /\ Len(sys_argv) > 1
    /\ fs # EmptyDir

(* C10, as stated: a call made more than one TTL after the last change of  *)
(* the logs (of the config file) is never served a value that differs from *)
(* what reading them gives.                                                *)
C10_FreshWithinTtl ==
    [][/\ (MainDashboard /\ CacheHit(parse_cache, ParseKey)
               /\ selected_processes # <<>> /\ since_log_write > PARSE_TTL) =>
              df' = ReadNow(selected_processes, fs)
       /\ (LoadAppConfig /\ since_config_write > CONFIG_TTL) =>
              /\ log_dir' = LoadConfigResult(config).log_dir
              /\ config_processes' = LoadConfigResult(config).names]_vars

(* C10, amended: the same, except for a value computed by a                *)
(* parse_log_files call that was running when the logs changed: the TTL    *)
(* of a stored value counts from the return of the call that computed it.  *)
C10_FreshWithinTtlOfStore ==
    [][/\ (MainDashboard /\ CacheHit(parse_cache, ParseKey)
               /\ selected_processes # <<>> /\ since_log_write > PARSE_TTL
               /\ ~parse_cache[ParseKey].racy) =>
              df' = ReadNow(selected_processes, fs)
       /\ (LoadAppConfig /\ since_config_write > CONFIG_TTL) =>
              /\ log_dir' = LoadConfigResult(config).log_dir
              /\ config_processes' = LoadConfigResult(config).names]_vars

C10_Witness ==
    /\ pc = "series"
    /\ df # <<>>
    /\ all_records = <<>>
    /\ since_log_write > PARSE_TTL
    /\ CacheHit(parse_cache, ParseKey)
    /\ parse_cache[ParseKey].age = 0
    /\ ~parse_cache[ParseKey].racy
    /\ df = ReadNow(selected_processes, fs)

====
